---------------------------- MODULE Spec2Model ----------------------------
(***************************************************************************)
(* The audio-thread processors of src/src/audio.rs as a state machine.     *)
(*                                                                         *)
(* A behaviour is the life of ONE processor instance, constructed by       *)
(* AmbisonicNode::construct_processor (kind = "psn") or by                 *)
(* AmbisonicDecodeNode::construct_processor (kind = "adn"), together with  *)
(* the host audio graph that calls its process callback.  The two          *)
(* processors share no state: each owns its accumulators and its queue,    *)
(* and the host hands every callback its own input and output buffers.     *)
(*                                                                         *)
(* Samples are opaque.  The input sample of host frame t (t counts the     *)
(* frames of all callbacks made so far, from 0) is written t on every      *)
(* input channel.  An output frame, one sample for each output channel, is *)
(* a record that says where its samples come from.                         *)
(*                                                                         *)
(* Further specifications share the variables: SpecS6 runs scenario S6 on  *)
(* one per-source processor, SpecPatch adds the patch channel from the     *)
(* node component to the processor, SpecDriver is the control thread       *)
(* (late_init, setup, the systems that move camera and sources, and the    *)
(* simulation driver prepare_seedling_data) with the processor idle,       *)
(* SpecLive is a stream that keeps calling process with non-silent blocks, *)
(* and SpecWrappers applies the snapshot conversions of src/src/wrappers.rs *)
(* to values drawn from bounded sets.                                      *)
(***************************************************************************)
EXTENDS Integers, Sequences, FiniteSets, TLC

\* ------------------------------------------------------------------------
\* Program constants
\* ------------------------------------------------------------------------
FRAME_SIZE == 256
AMBISONICS_ORDER == 2
AMBISONICS_NUM_CHANNELS == (AMBISONICS_ORDER + 1) * (AMBISONICS_ORDER + 1)
\* ChannelCount::STEREO: the per-source node's inputs, the decode node's outputs
STEREO == 2
\* the gains of the mix, 1.0, 0.3 and 0.1, in tenths
GAIN_FACTOR_DIRECT == 10
GAIN_FACTOR_REFLECTIONS == 3
GAIN_FACTOR_REVERB == 1

\* ------------------------------------------------------------------------
\* Bounds of the model
\* ------------------------------------------------------------------------
\* process callbacks made in one behaviour
MaxCalls == 3
\* process callbacks of a stream that keeps running, counted until the queue
\* is next found empty
MaxLiveCalls == 2
\* published snapshot values (simulation outputs, reverb parameters, poses)
NumSnapshots == 1
\* distinct f32 values in the values handed to the snapshot conversions
NumFloats == 2

Min(a, b) == IF a <= b THEN a ELSE b
Max(a, b) == IF a >= b THEN a ELSE b

\* a function on 1 .. n as the sequence it is, its elements computed once
AsSeq(f) == f \o << >>

\* Option<T>: None is the empty set, Some(x) the singleton
None == {}
Some(x) == {x}
IsSome(o) == o # None

\* cx.stream_info.max_block_frames: the largest block the host delivers
MaxBlockFrames == 2 * FRAME_SIZE
\* the host block sizes n (proc_info.frames) tried
BlockSizes == {1, FRAME_SIZE, MaxBlockFrames}

Snapshots == 1 .. NumSnapshots

\* ------------------------------------------------------------------------
\* Values
\* ------------------------------------------------------------------------
\* [0.0; N]: a frame whose samples are all exactly zero
ZeroFrame ==
    [kind |-> "zero", t |-> -1, direct |-> None, reflections |-> None,
     reverb |-> None, source_position |-> 0, listener_position |-> 0,
     orientation |-> 0, binaural |-> FALSE, mix |-> None]
\* what a host output buffer may hold where process wrote nothing: samples
\* of an earlier use of the buffer, of which nothing is known
JunkFrame == [ZeroFrame EXCEPT !.kind = "junk"]
\* the contents a host output buffer can have when process is entered
PriorContents == {ZeroFrame, JunkFrame}

\* AmbisonicNode: the parameters of the per-source node (Diff, Patch)
AmbisonicNodeNew ==
    [source_position |-> 0, listener_position |-> 0,
     simulation_outputs |-> None, reverb_effect_params |-> None]
\* the node as prepare_seedling_data writes it from snapshot s
AmbisonicNodePublished(s) ==
    [source_position |-> s, listener_position |-> s,
     simulation_outputs |-> Some(s), reverb_effect_params |-> Some(s)]
\* AmbisonicDecodeNode: the parameters of the decode node (Diff, Patch)
AmbisonicDecodeNodeNew == [listener_orientation |-> 0]

\* A patch names one field of the node and the value it takes.
PsnPatchLists ==
    {<< >>}
    \cup {<< [field |-> "simulation_outputs", value |-> Some(s)],
             [field |-> "reverb_effect_params", value |-> Some(s)] >> : s \in Snapshots}
AdnPatchLists ==
    {<< >>} \cup {<< [field |-> "listener_orientation", value |-> s] >> : s \in Snapshots}

\* a drain that applies the newest patch first
RECURSIVE DrainPatchesNewestFirst(_, _)
DrainPatchesNewestFirst(p, patches) ==
    IF patches = << >> THEN p
    ELSE DrainPatchesNewestFirst(
             [p EXCEPT ![patches[Len(patches)].field] = patches[Len(patches)].value],
             SubSeq(patches, 1, Len(patches) - 1))

\* Patch::apply for one patch
ApplyPatch(p, patch) == [p EXCEPT ![patch.field] = patch.value]
\* for patch in events.drain_patches() { self.params.apply(patch) }
RECURSIVE DrainPatches(_, _)
DrainPatches(p, patches) ==
    IF patches = << >> THEN p
    ELSE DrainPatches(ApplyPatch(p, Head(patches)), Tail(patches))

\* ------------------------------------------------------------------------
\* State
\* ------------------------------------------------------------------------
VARIABLES
    kind,                   \* which processor this is: "psn" or "adn"
    params,                 \* self.params
    simulation_outputs,     \* self.simulation_outputs (psn)
    reverb_effect_params,   \* self.reverb_effect_params (psn)
    listener_orientation,   \* self.listener_orientation (adn)
    input_buffer,           \* self.input_buffer: channel -> accumulated samples
    capacity,               \* channel -> capacity() of that accumulator
    output_buffer,          \* self.output_buffer: the queue of output frames
    \* the host's side of the last callback
    frames,                 \* proc_info.frames
    silent,                 \* in_silence_mask.all_channels_silent(inputs.len())
    status,                 \* the ProcessStatus returned
    written,                \* the frames process wrote to outputs[..][0..]
    prior,                  \* what outputs held on entry, and holds where not written
    applies,                \* the effect apply calls of the last callback, in order
    \* history
    clock,                  \* host frames of all callbacks made
    calls,                  \* callbacks made
    cycles,                 \* times an accumulator was found full
    applied,                \* times the effects were applied and mixed
    consumed,               \* input samples per channel taken by the effects
    appended,               \* frames appended to output_buffer so far
    pushed,                 \* samples pushed onto accumulator 0 so far
    drained,                \* frames drained from output_buffer so far
    queued,                 \* Len(output_buffer) when the drain began, -1 if none
    fed,                    \* host frames of the callbacks not flagged silent
    uniform,                \* every callback so far had FRAME_SIZE frames
    before,                 \* the history counters when the last callback began
    s6,                     \* the block-size scenario S6: its phase and findings
    \* the patch channel from the control thread to this processor
    published,              \* the node component as the control thread last wrote it
    events,                 \* the patches sent and not yet drained, oldest first
    \* the control thread: the simulation driver and what it works on
    simulator,              \* the AudionimbusSimulator resource
    sources,                \* every audionimbus::Source created: handle -> its state
    listener_source,        \* the ListenerSource resource: a handle, 0 if none
    entities,               \* the entities spawned by setup, in spawn order
    camera,                 \* the pose of the Camera3d entity
    graph,                  \* the audio graph late_init builds
    ready,                  \* AudionimbusReady triggered and not yet observed
    order,                  \* the calls of the last prepare_seedling_data, in order
    ticks,                  \* runs of prepare_seedling_data so far
    scenes,                 \* every audionimbus::Scene created, in creation order
    \* the snapshot conversions of wrappers.rs
    conversion              \* a value, its conversion and the conversion back

vars ==
    << kind, params, simulation_outputs, reverb_effect_params,
       listener_orientation, input_buffer, capacity, output_buffer,
       frames, silent, status, written, prior, applies,
       clock, calls, cycles, applied, consumed, appended, pushed, drained,
       queued, fed, uniform, before, s6,
       published, events,
       simulator, sources, listener_source, entities, camera, graph, ready,
       order, ticks, scenes, conversion >>

\* the patch channel
patch_vars == << published, events >>
\* the control thread's state
driver_vars ==
    << simulator, sources, listener_source, entities, camera, graph, ready,
       order, ticks, scenes >>
\* the value under conversion
wrapper_vars == << conversion >>

\* ------------------------------------------------------------------------
\* The processors
\* ------------------------------------------------------------------------
\* AudioNode::info: the input channels the host hands to process
NumInputs(k) == IF k = "psn" THEN STEREO ELSE AMBISONICS_NUM_CHANNELS
\* nodes that declare as outputs the channels they take as inputs
NumOutputsSwapped(k) == IF k = "psn" THEN STEREO ELSE AMBISONICS_NUM_CHANNELS
\* AudioNode::info: the output channels
NumOutputs(k) == IF k = "psn" THEN AMBISONICS_NUM_CHANNELS ELSE STEREO
\* self.input_buffer.len(): the length of the ARRAY of accumulators
InputLen(k) == IF k = "psn" THEN STEREO ELSE AMBISONICS_NUM_CHANNELS

\* inputs[channel][frame] of the callback that starts at host frame now
InputSample(now, frame) == now + frame

\* Vec::push: the capacity after pushing onto a vector of that length
PushCapacity(len, cap) ==
    IF len = cap THEN Max(2 * cap, Max(cap + 1, 4)) ELSE cap

\* the capacity after m pushes in a row
RECURSIVE CapacityAfter(_, _, _)
CapacityAfter(len, cap, m) ==
    IF len + m <= cap THEN cap
    ELSE CapacityAfter(len, PushCapacity(cap, cap), m)

\* The loop over the frames only pushes and continues until accumulator 0 is
\* found full: the number of frames, of those left in the block, up to and
\* with the push that next makes its length equal its capacity.
RunLength(st, left) ==
    LET len == Len(st.input_buffer[1])
    IN Min(left, PushCapacity(len, st.capacity[1]) - len)

\* a loop that pushes the host's samples onto accumulator 0 alone
PushRunFirstOnly(st, now, frame, m) ==
    LET src == AsSeq([i \in 1 .. m |-> InputSample(now, frame + i - 1)]) IN
    [st EXCEPT
        !.capacity = AsSeq([c \in DOMAIN st.capacity |->
                        IF c = 1
                        THEN CapacityAfter(Len(st.input_buffer[c]), st.capacity[c], m)
                        ELSE st.capacity[c]]),
        !.input_buffer = AsSeq([c \in DOMAIN st.input_buffer |->
                                  IF c = 1
                                  THEN st.input_buffer[c] \o src
                                  ELSE st.input_buffer[c]]),
        !.pushed = @ + m]

\* dst.push(src[frame]) for every accumulator zipped with inputs, for the m
\* frames of the block from frame on
PushRun(st, now, frame, m) ==
    LET src == AsSeq([i \in 1 .. m |-> InputSample(now, frame + i - 1)]) IN
    [st EXCEPT
        !.capacity = AsSeq([c \in DOMAIN st.capacity |->
                        IF c <= st.inputs
                        THEN CapacityAfter(Len(st.input_buffer[c]), st.capacity[c], m)
                        ELSE st.capacity[c]]),
        !.input_buffer = AsSeq([c \in DOMAIN st.input_buffer |->
                                  IF c <= st.inputs
                                  THEN st.input_buffer[c] \o src
                                  ELSE st.input_buffer[c]]),
        !.pushed = @ + m]

\* self.input_buffer[0].len() != self.input_buffer[0].capacity()
NotFull(st) == Len(st.input_buffer[1]) # st.capacity[1]

\* self.output_buffer.extend(repeat_n([0.0; N], input_len))
ExtendOutput(st, input_len) ==
    [st EXCEPT
        !.output_buffer = st.output_buffer \o [k \in 1 .. input_len |-> ZeroFrame],
        !.cycles = @ + 1,
        !.appended = @ + input_len]

\* a cycle that leaves the accumulators as they are
ClearInputNot(st) == st

\* for buff in &mut self.input_buffer { buff.clear() }
ClearInput(st) ==
    [st EXCEPT !.input_buffer = AsSeq([c \in DOMAIN st.input_buffer |-> << >>])]

\* copy_from_slice(&self.input_buffer[channel]) into FRAME_SIZE samples:
\* it panics unless the accumulator holds exactly FRAME_SIZE samples
CopyPanics(st) ==
    \E c \in DOMAIN st.input_buffer : Len(st.input_buffer[c]) # FRAME_SIZE

\* the mix of one sample: the three effect outputs are multiplied by these
\* gains, added, and the sum divided by divisor
MixWeights ==
    [direct |-> GAIN_FACTOR_DIRECT,
     reflections |-> GAIN_FACTOR_REFLECTIONS,
     reverb |-> GAIN_FACTOR_REVERB,
     divisor |-> GAIN_FACTOR_DIRECT + GAIN_FACTOR_REFLECTIONS + GAIN_FACTOR_REVERB]

\* the frame the per-source cycle computes for sample k of the accumulators:
\* direct, encode, reflections and reverb applied, then mixed
MixFrame(st, p, so, rv, k) ==
    [kind |-> "mix", t |-> st.input_buffer[1][k],
     direct |-> so, reflections |-> so, reverb |-> rv,
     source_position |-> p.source_position,
     listener_position |-> p.listener_position,
     orientation |-> 0, binaural |-> FALSE, mix |-> Some(MixWeights)]

\* the frame the decode cycle computes for sample k of the accumulators
DecodeFrame(st, lo, k) ==
    [ZeroFrame EXCEPT !.kind = "decode", !.t = st.input_buffer[1][k],
                      !.orientation = lo, !.binaural = FALSE]

\* an audionimbus::AudioBuffer made over a container: the samples the
\* container holds, the channel pointers handed over with it, and
\* settings.num_channels (None where try_with_data is called without settings)
AudioBuffer(name, data, channel_ptrs, num_channels) ==
    [name |-> name, data |-> data, channel_ptrs |-> channel_ptrs,
     num_channels |-> num_channels]

\* the buffers of the per-source cycle
InputBuffer == AudioBuffer("input_buffer", 2 * FRAME_SIZE, 2, None)
DirectBuffer == AudioBuffer("direct_buffer", FRAME_SIZE, 1, None)
AmbisonicsEncodeBuffer ==
    AudioBuffer("ambisonics_encode_buffer", FRAME_SIZE * AMBISONICS_NUM_CHANNELS,
                AMBISONICS_NUM_CHANNELS, Some(AMBISONICS_NUM_CHANNELS))
ReflectionBuffer ==
    AudioBuffer("reflection_buffer", FRAME_SIZE * AMBISONICS_NUM_CHANNELS,
                AMBISONICS_NUM_CHANNELS, Some(AMBISONICS_NUM_CHANNELS))
ReverbBuffer ==
    AudioBuffer("reverb_buffer", FRAME_SIZE * AMBISONICS_NUM_CHANNELS,
                AMBISONICS_NUM_CHANNELS, Some(AMBISONICS_NUM_CHANNELS))
\* the buffers of the decode cycle; num_channels of staging is outputs.len()
MixBuffer ==
    AudioBuffer("mix_buffer", AMBISONICS_NUM_CHANNELS * FRAME_SIZE,
                AMBISONICS_NUM_CHANNELS, Some(AMBISONICS_NUM_CHANNELS))
StagingBuffer ==
    AudioBuffer("staging_buffer", FRAME_SIZE * 2, 2, Some(NumOutputs("adn")))

\* the channels each effect was constructed for (try_new and its settings):
\* DirectEffectSettings { num_channels: 1 }, the encode and decode effects
\* max_order AMBISONICS_ORDER, the decode effect SpeakerLayout::Stereo, the
\* reflection effect num_channels AMBISONICS_NUM_CHANNELS of output (0: the
\* settings say nothing of that side)
ConstructedFor(stage) ==
    CASE stage = "direct" -> [inputs |-> 1, outputs |-> 1]
      [] stage = "encode" -> [inputs |-> 1, outputs |-> AMBISONICS_NUM_CHANNELS]
      [] stage \in {"reflections", "reverb"} ->
             [inputs |-> 0, outputs |-> AMBISONICS_NUM_CHANNELS]
      [] stage = "decode" -> [inputs |-> AMBISONICS_NUM_CHANNELS, outputs |-> STEREO]

\* one call effect.apply(params, input, output); stage names the step of the
\* cycle that makes it
Apply(stage, effect, effect_params, input, output) ==
    [stage |-> stage, effect |-> effect, params |-> effect_params,
     input |-> input, output |-> output]

\* a cycle whose reflections are computed from the direct effect's output
PsnAppliesReflectionsOfDirect(p, so, rv) ==
    << Apply("direct", "direct_effect", so, InputBuffer, DirectBuffer),
       Apply("encode", "ambisonics_encode_effect",
             [source_position |-> p.source_position,
              listener_position |-> p.listener_position,
              order |-> AMBISONICS_ORDER],
             DirectBuffer, AmbisonicsEncodeBuffer),
       Apply("reflections", "reflection_effect", so, DirectBuffer, ReflectionBuffer),
       Apply("reverb", "reflection_effect", rv, InputBuffer, ReverbBuffer) >>

\* the apply calls of one per-source cycle, in the order they are made
PsnApplies(p, so, rv) ==
    << Apply("direct", "direct_effect", so, InputBuffer, DirectBuffer),
       Apply("encode", "ambisonics_encode_effect",
             [source_position |-> p.source_position,
              listener_position |-> p.listener_position,
              order |-> AMBISONICS_ORDER],
             DirectBuffer, AmbisonicsEncodeBuffer),
       Apply("reflections", "reflection_effect", so, InputBuffer, ReflectionBuffer),
       Apply("reverb", "reflection_effect", rv, InputBuffer, ReverbBuffer) >>

\* the apply call of one decode cycle
AdnApplies(lo) ==
    << Apply("decode", "ambisonics_decode_effect",
             [order |-> AMBISONICS_ORDER, hrtf |-> "self.hrtf",
              orientation |-> lo, binaural |-> FALSE],
             MixBuffer, StagingBuffer) >>

\* a cycle that writes its frames from the front of the queue on
WriteCycleFromFront(st, output_start, computed) ==
    [st EXCEPT
        !.output_buffer =
            AsSeq([i \in 1 .. Len(st.output_buffer) |->
                IF i <= FRAME_SIZE THEN computed[i] ELSE st.output_buffer[i]]),
        !.applied = @ + 1,
        !.consumed = @ + FRAME_SIZE]

\* for (output, sample) in self.output_buffer[output_start..].iter_mut().zip(channel):
\* computed holds, for each of the FRAME_SIZE samples of the cycle, the frame
\* of that sample on all output channels; the zip ends with the shorter of
\* the frames from output_start on and the computed samples
WriteCycle(st, output_start, computed) ==
    [st EXCEPT
        !.output_buffer =
            AsSeq([i \in 1 .. Len(st.output_buffer) |->
                IF i > output_start /\ i - output_start <= FRAME_SIZE
                THEN computed[i - output_start]
                ELSE st.output_buffer[i]]),
        !.applied = @ + 1,
        !.consumed = @ + FRAME_SIZE]

\* AmbisonicProcessor::process, the loop over the frames of the host block
RECURSIVE PsnFrames(_, _, _, _, _, _, _)
PsnFrames(st, p, so, rv, now, frame, n) ==
    IF frame = n THEN st
    ELSE
      LET m == RunLength(st, n - frame)
          acc == PushRun(st, now, frame, m)
      IN
      IF NotFull(acc) THEN PsnFrames(acc, p, so, rv, now, frame + m, n)
      ELSE
        LET output_start == Len(acc.output_buffer)
            ext == ExtendOutput(acc, InputLen("psn"))
        IN
        IF ~(IsSome(so) /\ IsSome(rv))
        THEN [ext EXCEPT !.returned = "ClearAllOutputs"]
        ELSE IF CopyPanics(ext) THEN [ext EXCEPT !.returned = "panic"]
        ELSE
          LET computed == [k \in 1 .. FRAME_SIZE |-> MixFrame(ext, p, so, rv, k)]
              called == [ext EXCEPT !.applies = @ \o PsnApplies(p, so, rv)]
              mixed == WriteCycle(called, output_start, computed)
          IN PsnFrames(ClearInput(mixed), p, so, rv, now, frame + m, n)

\* AmbisonicDecodeProcessor::process, the loop over the frames of the host block
RECURSIVE AdnFrames(_, _, _, _, _)
AdnFrames(st, lo, now, frame, n) ==
    IF frame = n THEN st
    ELSE
      LET m == RunLength(st, n - frame)
          acc == PushRun(st, now, frame, m)
      IN
      IF NotFull(acc) THEN AdnFrames(acc, lo, now, frame + m, n)
      ELSE
        LET output_start == Len(acc.output_buffer)
            ext == ExtendOutput(acc, InputLen("adn"))
        IN
        IF CopyPanics(ext) THEN [ext EXCEPT !.returned = "panic"]
        ELSE
          LET computed == [k \in 1 .. FRAME_SIZE |-> DecodeFrame(ext, lo, k)]
              called == [ext EXCEPT !.applies = @ \o AdnApplies(lo)]
              decoded == WriteCycle(called, output_start, computed)
          IN AdnFrames(ClearInput(decoded), lo, now, frame + m, n)

\* self.output_buffer.drain(..proc_info.frames.min(self.output_buffer.len()))
DrainCount(n, queue) == Min(n, Len(queue))

\* the processor's state as the loop over the frames finds it, with
\* inputs.len(), the input channels the host hands over
LoopState ==
    [input_buffer |-> input_buffer, capacity |-> capacity,
     output_buffer |-> output_buffer, cycles |-> cycles, applied |-> applied,
     consumed |-> consumed, appended |-> appended, pushed |-> pushed,
     inputs |-> NumInputs(kind), returned |-> "none", applies |-> << >>]

\* what every callback does to the host's side and the history
Called(n, sil) ==
    /\ frames' = n
    /\ silent' = sil
    /\ clock' = clock + n
    /\ calls' = calls + 1
    /\ fed' = IF sil THEN fed ELSE fed + n
    /\ uniform' = (uniform /\ n = FRAME_SIZE)
    /\ before' = [cycles |-> cycles, applied |-> applied, pushed |-> pushed,
                  drained |-> drained, appended |-> appended,
                  queue |-> Len(output_buffer), len |-> Len(input_buffer[1]),
                  patched |-> Len(events)]

\* return ProcessStatus::ClearAllOutputs for a block flagged silent
ReturnSilent ==
    /\ status' = "ClearAllOutputs"
    /\ written' = << >>
    /\ queued' = -1
    /\ applies' = << >>
    /\ UNCHANGED << input_buffer, capacity, output_buffer,
                    cycles, applied, consumed, appended, pushed, drained >>

\* the loop over the frames is left by a return (or a panic) inside it
ReturnFromLoop(st) ==
    /\ status' = st.returned
    /\ written' = << >>
    /\ queued' = -1
    /\ input_buffer' = st.input_buffer
    /\ capacity' = st.capacity
    /\ output_buffer' = st.output_buffer
    /\ cycles' = st.cycles
    /\ applied' = st.applied
    /\ consumed' = st.consumed
    /\ appended' = st.appended
    /\ pushed' = st.pushed
    /\ applies' = st.applies
    /\ UNCHANGED drained

\* the drain after the loop: outputs[j][i] = channels[j], outputs_not_silent()
DrainOutput(st, n) ==
    LET count == DrainCount(n, st.output_buffer) IN
    /\ status' = "outputs_not_silent"
    /\ written' = SubSeq(st.output_buffer, 1, count)
    /\ queued' = Len(st.output_buffer)
    /\ input_buffer' = st.input_buffer
    /\ capacity' = st.capacity
    /\ output_buffer' = SubSeq(st.output_buffer, count + 1, Len(st.output_buffer))
    /\ cycles' = st.cycles
    /\ applied' = st.applied
    /\ consumed' = st.consumed
    /\ appended' = st.appended
    /\ pushed' = st.pushed
    /\ applies' = st.applies
    /\ drained' = drained + count

\* AmbisonicProcessor::process from the loop over the frames on
PsnBlockUnflagged(n) ==
    LET st == PsnFrames(LoopState, params', simulation_outputs,
                        reverb_effect_params, clock, 0, n)
    IN IF st.returned # "none" THEN ReturnFromLoop(st)
       ELSE DrainOutput(st, n)

\* a per-source node that takes no early return on a block flagged silent
PsnBlockNoEarlyReturn(n, sil) == PsnBlockUnflagged(n)

\* AmbisonicProcessor::process after the patches: the early return when all
\* input channels are flagged silent, or else the frames and the drain
PsnBlock(n, sil) == IF sil THEN ReturnSilent ELSE PsnBlockUnflagged(n)

\* AmbisonicDecodeProcessor::process from the loop over the frames on
AdnBlockUnflagged(n) ==
    LET st == AdnFrames(LoopState, listener_orientation, clock, 0, n)
    IN IF st.returned # "none" THEN ReturnFromLoop(st)
       ELSE DrainOutput(st, n)

\* a decode node that takes no early return on a block flagged silent
AdnBlockNoEarlyReturn(n, sil) == AdnBlockUnflagged(n)

\* AmbisonicDecodeProcessor::process after the patches
AdnBlock(n, sil) == IF sil THEN ReturnSilent ELSE AdnBlockUnflagged(n)

\* AmbisonicProcessor::process: one callback
PsnCallback(n, sil, patches) ==
    /\ kind = "psn"
    /\ status # "panic"
    /\ params' = DrainPatches(params, patches)
    /\ Called(n, sil)
    /\ PsnBlock(n, sil)
    /\ prior' \in PriorContents
    /\ UNCHANGED << kind, simulation_outputs, reverb_effect_params,
                    listener_orientation >>

\* AmbisonicDecodeProcessor::process: one callback
AdnCallback(n, sil, patches) ==
    /\ kind = "adn"
    /\ status # "panic"
    /\ params' = DrainPatches(params, patches)
    /\ Called(n, sil)
    /\ AdnBlock(n, sil)
    /\ prior' \in PriorContents
    /\ UNCHANGED << kind, simulation_outputs, reverb_effect_params,
                    listener_orientation >>

\* the host calls AmbisonicProcessor::process
PsnProcess(n, sil, patches) ==
    /\ calls < MaxCalls
    /\ PsnCallback(n, sil, patches)
    /\ UNCHANGED << s6, patch_vars, driver_vars, wrapper_vars >>

\* the host calls AmbisonicDecodeProcessor::process
AdnProcess(n, sil, patches) ==
    /\ calls < MaxCalls
    /\ AdnCallback(n, sil, patches)
    /\ UNCHANGED << s6, patch_vars, driver_vars, wrapper_vars >>

\* the frame the host takes from position i (from 1) of the last block:
\* ClearAllOutputs has the host clear every output channel
Delivered(i) ==
    IF status = "ClearAllOutputs" THEN ZeroFrame
    ELSE IF i <= Len(written) THEN written[i]
    ELSE prior

\* the nodes a processor is constructed from
PsnNodes == {AmbisonicNodeNew} \cup {AmbisonicNodePublished(s) : s \in Snapshots}
AdnNodes ==
    {AmbisonicDecodeNodeNew} \cup {[listener_orientation |-> o] : o \in Snapshots}

\* the state the construct_processor calls leave
Constructed(k, node) ==
    /\ kind = k
    /\ params = node
    /\ simulation_outputs = IF k = "psn" THEN node.simulation_outputs ELSE None
    /\ reverb_effect_params = IF k = "psn" THEN node.reverb_effect_params ELSE None
    /\ listener_orientation = IF k = "adn" THEN node.listener_orientation ELSE 0
    /\ input_buffer = [c \in 1 .. InputLen(k) |-> << >>]
    /\ capacity = [c \in 1 .. InputLen(k) |-> FRAME_SIZE]
    /\ output_buffer = << >>

\* the host's side and the history before the first callback
NoCallYet ==
    /\ frames = 0
    /\ silent = FALSE
    /\ status = "none"
    /\ written = << >>
    /\ prior = ZeroFrame
    /\ applies = << >>
    /\ clock = 0
    /\ calls = 0
    /\ cycles = 0
    /\ applied = 0
    /\ consumed = 0
    /\ appended = 0
    /\ pushed = 0
    /\ drained = 0
    /\ queued = -1
    /\ fed = 0
    /\ uniform = TRUE
    /\ before = [cycles |-> 0, applied |-> 0, pushed |-> 0, drained |-> 0,
                 appended |-> 0, queue |-> 0, len |-> 0, patched |-> 0]

\* scenario S6 is not run
S6Off == [phase |-> "off", a |-> {}, delays |-> {}]

\* nothing is in flight on the patch channel: the processor was constructed
\* from the node component as it stands
NoPatchesSent ==
    /\ published = params
    /\ events = << >>

\* Res<AudionimbusSimulator> before late_init inserted it
NoSimulator ==
    [id |-> 0, added |-> {}, committed |-> {}, listener |-> 0, passes |-> 0,
     scene |-> 0, sampling_rate |-> 0, settings |-> None, shared_inputs |-> None]
\* the audio graph before late_init spawned its nodes
NoGraph == [built |-> FALSE, nodes |-> {}, connections |-> {}, player_nodes |-> TRUE]

\* no value was handed to a conversion
NoConversion ==
    conversion = [of |-> "none", usize |-> 0, original |-> None,
                  converted |-> None, restored |-> None]

\* the control thread before the stream start
NoDriver ==
    /\ simulator = NoSimulator
    /\ sources = << >>
    /\ listener_source = 0
    /\ entities = << >>
    /\ camera = 1
    /\ graph = NoGraph
    /\ ready = FALSE
    /\ order = << >>
    /\ ticks = 0
    /\ scenes = << >>

Init ==
    /\ \/ \E node \in PsnNodes : Constructed("psn", node)
       \/ \E node \in AdnNodes : Constructed("adn", node)
    /\ NoCallYet
    /\ s6 = S6Off
    /\ NoPatchesSent
    /\ NoDriver
    /\ NoConversion

Next ==
    \E n \in BlockSizes, sil \in BOOLEAN :
        \/ \E patches \in PsnPatchLists : PsnProcess(n, sil, patches)
        \/ \E patches \in AdnPatchLists : AdnProcess(n, sil, patches)

Spec == Init /\ [][Next]_vars

\* ------------------------------------------------------------------------
\* A stream that keeps running: the host goes on calling process with blocks
\* that are not flagged silent, and does not stop while frames are waiting
\* in the output queue.
\* ------------------------------------------------------------------------
\* the host block sizes of the running stream: a block one frame short of a
\* cycle, so that a cycle can end in the middle of the stream's blocks
LiveBlockSizes == {1, FRAME_SIZE - 1, FRAME_SIZE}

\* the stream is running: callbacks are still to come
StreamRuns == calls < MaxLiveCalls \/ output_buffer # << >>

\* the host calls AmbisonicProcessor::process with a block that is not silent
PsnProcessLive(n) ==
    /\ StreamRuns
    /\ PsnCallback(n, FALSE, << >>)
    /\ UNCHANGED << s6, patch_vars, driver_vars, wrapper_vars >>

\* the host calls AmbisonicDecodeProcessor::process with a block that is not silent
AdnProcessLive(n) ==
    /\ StreamRuns
    /\ AdnCallback(n, FALSE, << >>)
    /\ UNCHANGED << s6, patch_vars, driver_vars, wrapper_vars >>

NextLive ==
    \E n \in LiveBlockSizes :
        \/ PsnProcessLive(n)
        \/ AdnProcessLive(n)

\* the audio stream calls process for block after block while it runs
SpecLive == Init /\ [][NextLive]_vars /\ WF_vars(NextLive)

\* ------------------------------------------------------------------------
\* Scenario S6: the same 4 * FRAME_SIZE input frames delivered to a
\* per-source processor with snapshots (a) as one host block and (b) as
\* blocks of one frame each.  Run (a) records the host position of every
\* frame a cycle computed; run (b), on a processor constructed anew, records
\* by how much later each of them reaches the host.
\* ------------------------------------------------------------------------
S6Frames == 4 * FRAME_SIZE
\* max_block_frames of the stream of S6: the one block of (a) must fit
S6MaxBlockFrames == S6Frames

\* the <<t, position>> of the frames the callback about to end hands over
S6Positions ==
    {<< written'[i].t, clock + i - 1 >> : i \in 1 .. Len(written')}

\* (a): the whole input as one block
S6OneBlock ==
    /\ s6.phase = "a"
    /\ PsnCallback(S6Frames, FALSE, << >>)
    /\ s6' = [s6 EXCEPT !.phase = "a_done", !.a = S6Positions]
    /\ UNCHANGED << patch_vars, driver_vars, wrapper_vars >>

\* between (a) and (b) the processor is constructed anew from the same node
S6Construct ==
    /\ s6.phase = "a_done"
    /\ simulation_outputs' = params.simulation_outputs
    /\ reverb_effect_params' = params.reverb_effect_params
    /\ input_buffer' = [c \in 1 .. InputLen("psn") |-> << >>]
    /\ capacity' = [c \in 1 .. InputLen("psn") |-> FRAME_SIZE]
    /\ output_buffer' = << >>
    /\ frames' = 0
    /\ silent' = FALSE
    /\ status' = "none"
    /\ written' = << >>
    /\ prior' = ZeroFrame
    /\ applies' = << >>
    /\ clock' = 0
    /\ calls' = 0
    /\ cycles' = 0
    /\ applied' = 0
    /\ consumed' = 0
    /\ appended' = 0
    /\ pushed' = 0
    /\ drained' = 0
    /\ queued' = -1
    /\ fed' = 0
    /\ uniform' = TRUE
    /\ before' = [cycles |-> 0, applied |-> 0, pushed |-> 0, drained |-> 0,
                  appended |-> 0, queue |-> 0, len |-> 0, patched |-> 0]
    /\ s6' = [s6 EXCEPT !.phase = "b"]
    /\ UNCHANGED << kind, params, listener_orientation >>
    /\ UNCHANGED << patch_vars, driver_vars, wrapper_vars >>

\* (b): the next frame of the input as a block of its own
S6SingleFrame ==
    /\ s6.phase = "b"
    /\ clock < S6Frames
    /\ PsnCallback(1, FALSE, << >>)
    /\ s6' = [s6 EXCEPT !.delays = @ \cup
                  {b[2] - a[2] : <<a, b>> \in
                      {ab \in s6.a \X S6Positions : ab[1][1] = ab[2][1]}}]
    /\ UNCHANGED << patch_vars, driver_vars, wrapper_vars >>

InitS6 ==
    /\ \E s \in Snapshots : Constructed("psn", AmbisonicNodePublished(s))
    /\ NoCallYet
    /\ s6 = [phase |-> "a", a |-> {}, delays |-> {}]
    /\ NoPatchesSent
    /\ NoDriver
    /\ NoConversion

NextS6 == S6OneBlock \/ S6Construct \/ S6SingleFrame

SpecS6 == InitS6 /\ [][NextS6]_vars

\* ------------------------------------------------------------------------
\* The patch channel.  The control thread writes the node component; the
\* derived Diff sends one patch for every field that differs from the value
\* last sent; the patches wait, oldest first, until the next process
\* callback of the node's processor drains them.
\* ------------------------------------------------------------------------
\* writes of the node component whose patches may wait at once
MaxPending == 2
\* process callbacks made in one behaviour of the patch channel
MaxPatchCalls == 1

\* the fields Diff visits, in declaration order (context is #[diff(skip)])
PsnFields ==
    << "source_position", "listener_position", "simulation_outputs",
       "reverb_effect_params" >>
AdnFields == << "listener_orientation" >>
NodeFields(k) == IF k = "psn" THEN PsnFields ELSE AdnFields

\* the snapshots the control thread publishes: those a processor may have
\* been constructed from and one that is newer than all of them
PublishedSnapshots == 1 .. NumSnapshots + 1

\* the values the control thread writes to the node component
NodeValues(k) ==
    IF k = "psn"
    THEN {AmbisonicNodeNew} \cup {AmbisonicNodePublished(s) : s \in PublishedSnapshots}
    ELSE {AmbisonicDecodeNodeNew}
         \cup {[listener_orientation |-> o] : o \in PublishedSnapshots}

\* Diff::diff: the patches that lead from baseline to node
RECURSIVE Diff(_, _, _)
Diff(baseline, node, fields) ==
    IF fields = << >> THEN << >>
    ELSE (IF baseline[Head(fields)] # node[Head(fields)]
          THEN << [field |-> Head(fields), value |-> node[Head(fields)]] >>
          ELSE << >>)
         \o Diff(baseline, node, Tail(fields))

\* the control thread writes node to the component: its patches are sent
Publish(node) ==
    LET sent == Diff(published, node, NodeFields(kind)) IN
    /\ sent # << >>
    /\ Len(events) + Len(sent) <= MaxPending * Len(NodeFields(kind))
    /\ published' = node
    /\ events' = events \o sent
    /\ UNCHANGED << kind, params, simulation_outputs, reverb_effect_params,
                    listener_orientation, input_buffer, capacity, output_buffer,
                    frames, silent, status, written, prior, applies,
                    clock, calls, cycles, applied, consumed, appended, pushed,
                    drained, queued, fed, uniform, before, s6 >>
    /\ UNCHANGED << driver_vars, wrapper_vars >>

\* the host calls AmbisonicProcessor::process: it drains the waiting patches
PsnProcessQueued(n, sil) ==
    /\ calls < MaxPatchCalls
    /\ PsnCallback(n, sil, events)
    /\ events' = << >>
    /\ UNCHANGED << s6, published, driver_vars, wrapper_vars >>

\* the host calls AmbisonicDecodeProcessor::process: it drains the waiting patches
AdnProcessQueued(n, sil) ==
    /\ calls < MaxPatchCalls
    /\ AdnCallback(n, sil, events)
    /\ events' = << >>
    /\ UNCHANGED << s6, published, driver_vars, wrapper_vars >>

\* the host block sizes of the patch channel's behaviours
PatchBlockSizes == {1, FRAME_SIZE}

NextPatch ==
    \/ \E node \in NodeValues(kind) : Publish(node)
    \/ \E n \in PatchBlockSizes, sil \in BOOLEAN : PsnProcessQueued(n, sil)
    \/ \E n \in PatchBlockSizes, sil \in BOOLEAN : AdnProcessQueued(n, sil)

\* the processor is constructed from the node component as it stands when
\* the graph takes the node in: as new() left it, or as the driver wrote it
InitPatch ==
    /\ \/ \E node \in PsnNodes : Constructed("psn", node)
       \/ \E node \in AdnNodes : Constructed("adn", node)
    /\ NoCallYet
    /\ s6 = S6Off
    /\ NoPatchesSent
    /\ NoDriver
    /\ NoConversion

SpecPatch == InitPatch /\ [][NextPatch]_vars

\* ------------------------------------------------------------------------
\* The control thread: late_init and setup at every stream start, the
\* systems that move the camera and the sources, and the simulation driver
\* prepare_seedling_data.  The simulator is the acoustic kernel: a source
\* handle keeps the inputs last set on it, a run computes the outputs of the
\* sources committed to the simulator from the inputs they hold at the run,
\* and get_outputs reads what the last run left.  An output says for which
\* handle, in which run and from which inputs it was computed.
\* ------------------------------------------------------------------------
\* StreamStartEvents in one behaviour
MaxStreamStarts == 2
\* runs of prepare_seedling_data in one behaviour
MaxTicks == 2
\* poses the camera and the sources take
NumPoses == 2
\* ReflectionsSimulationSettings::Convolution { max_num_sources: 8, .. }
max_num_sources == 8

Poses == 1 .. NumPoses
\* Transform::from_xyz(0.0, 2.0, 0.0), the pose setup gives a source
SpawnPose == 1

\* what a handle's outputs hold before any run computed them
NoOutput(h) == [of |-> h, run |-> 0, origin |-> 0, listener |-> 0]

\* audionimbus::Source::try_new(&simulator, &SourceSettings { flags }):
\* the state of the new handle h, its inputs not set (origin 0)
SourceNew(h, sim, flags) ==
    [simulator |-> sim, flags |-> flags, origin |-> 0,
     direct |-> NoOutput(h), reflections |-> NoOutput(h)]

\* source.set_inputs(flags, SimulationInputs { source: origin, .. })
SetInputs(srcs, h, origin) == [srcs EXCEPT ![h].origin = origin]

\* simulator.run_direct()
RunDirect(sim, srcs, run) ==
    [h \in DOMAIN srcs |->
        IF h \in sim.committed /\ "DIRECT" \in srcs[h].flags
        THEN [srcs[h] EXCEPT !.direct =
                 [of |-> h, run |-> run, origin |-> srcs[h].origin,
                  listener |-> sim.listener]]
        ELSE srcs[h]]

\* simulator.run_reflections()
RunReflections(sim, srcs, run) ==
    [h \in DOMAIN srcs |->
        IF h \in sim.committed /\ "REFLECTIONS" \in srcs[h].flags
        THEN [srcs[h] EXCEPT !.reflections =
                 [of |-> h, run |-> run, origin |-> srcs[h].origin,
                  listener |-> sim.listener]]
        ELSE srcs[h]]

\* a get_outputs that hands over the direct outputs as reflection outputs
GetOutputsDirectAsReflections(srcs, h) ==
    [direct |-> srcs[h].direct, reflections |-> srcs[h].direct]

\* source.get_outputs(flags)
GetOutputs(srcs, h) ==
    [direct |-> srcs[h].direct, reflections |-> srcs[h].reflections]

\* From<&audionimbus::SimulationOutputs> for AudionimbusSimulationOutputs
SimulationOutputsFrom(outputs) ==
    [direct |-> outputs.direct, reflections |-> outputs.reflections]

\* AudioNode::info of both nodes: the channel configuration they declare
AudioNodeInfo(k) == [num_inputs |-> NumInputs(k), num_outputs |-> NumOutputs(k)]

\* the (output, input) pairs late_init hands to chain_node_with
DecodeConnections ==
    { <<0, 0>>, <<1, 1>>, <<2, 2>>, <<3, 3>>, <<4, 4>>, <<5, 5>>, <<6, 6>>,
      <<7, 7>>, <<8, 8>> }

\* a simulator built with a maximum of one source
SimulatorSettingsOneSource ==
    [max_num_rays |-> 2048, num_diffuse_samples |-> 8, max_duration |-> 2,
     max_order |-> AMBISONICS_ORDER, max_num_sources |-> 1, num_threads |-> 1]
\* the settings late_init builds the simulator with: max_duration is 2.0
\* seconds
SimulatorSettings ==
    [max_num_rays |-> 2048, num_diffuse_samples |-> 8, max_duration |-> 2,
     max_order |-> AMBISONICS_ORDER, max_num_sources |-> max_num_sources,
     num_threads |-> 1]

\* stream_start.sample_rate, which is cx.stream_info.sample_rate of the
\* processors constructed for that stream: the sample rates tried
SampleRates == {44100, 48000}

\* shared inputs that ask for three seconds of reverb
SharedInputsLongerReverb(listener) ==
    [listener |-> listener, num_rays |-> 2048, num_bounces |-> 8, duration |-> 3,
     order |-> AMBISONICS_ORDER, irradiance_min_distance |-> 1]

\* SimulationSharedInputs of a control tick: duration is 2.0 seconds,
\* irradiance_min_distance 1.0
SharedInputs(listener) ==
    [listener |-> listener, num_rays |-> 2048, num_bounces |-> 8, duration |-> 2,
     order |-> AMBISONICS_ORDER, irradiance_min_distance |-> 1]

\* ReflectionEffectSettings::Convolution of the per-source processor's
\* reflection effect, for AudioSettings { sampling_rate, .. }
ReflectionEffectSettings(sampling_rate) ==
    [impulse_response_size |-> 2 * sampling_rate,
     num_channels |-> AMBISONICS_NUM_CHANNELS]

\* a source added to the simulator and not committed
AddSourceUncommitted(sim, h) == [sim EXCEPT !.added = @ \cup {h}]

\* simulator.add_source(&source); simulator.commit()
AddSourceAndCommit(sim, h) ==
    [sim EXCEPT !.added = @ \cup {h}, !.committed = sim.added \cup {h}]

\* the processor and the patch channel are not part of the control thread
audio_vars ==
    << kind, params, simulation_outputs, reverb_effect_params,
       listener_orientation, input_buffer, capacity, output_buffer,
       frames, silent, status, written, prior, applies,
       clock, calls, cycles, applied, consumed, appended, pushed, drained,
       queued, fed, uniform, before, s6, published, events >>

\* late_init, the observer of StreamStartEvent
LateInit(sample_rate) ==
    LET h == Len(sources) + 1
        built == [NoSimulator EXCEPT !.id = simulator.id + 1,
                                     !.sampling_rate = sample_rate,
                                     !.settings = Some(SimulatorSettings)]
    IN
    /\ simulator.id < MaxStreamStarts
    /\ ~ready
    /\ sources' = Append(sources, SourceNew(h, built.id, {"REFLECTIONS"}))
    /\ simulator' = AddSourceAndCommit(built, h)
    /\ listener_source' = h
    /\ graph' = [built |-> TRUE, player_nodes |-> graph.player_nodes,
                 nodes |-> [psn |-> AudioNodeInfo("psn"), adn |-> AudioNodeInfo("adn")],
                 connections |-> DecodeConnections]
    /\ ready' = TRUE
    /\ UNCHANGED << entities, camera, order, ticks, scenes >>
    /\ UNCHANGED << audio_vars, wrapper_vars >>

\* a query that hands over the listener-anchored source with every node
ListenerAsEntitySource(e) == listener_source

\* the source of entity e, as the query hands it over with the entity's nodes
EntitySource(e) == entities[e].source

\* TOPOLOGY: the surfaces setup adds to the scene after the walls
TOPOLOGY == 23

\* the calls setup makes on the scene it creates and on the simulator for
\* it, in order: the walls and every surface of TOPOLOGY are added, the scene
\* is committed, attached to the simulator, and the simulator committed
SceneCalls ==
    [i \in 1 .. 1 + TOPOLOGY |-> "add_static_mesh"]
    \o << "scene.commit", "set_scene", "simulator.commit" >>

\* setup, the observer of AudionimbusReady.  Whether the entity it spawns
\* into the sampler pool also carries the AmbisonicNode and
\* AmbisonicDecodeNode components the driver's query asks for is the pool's
\* doing: graph.player_nodes.
Setup ==
    LET h == Len(sources) + 1
        has_nodes == graph.player_nodes
    IN
    /\ ready
    /\ sources' = Append(sources, SourceNew(h, simulator.id, {"DIRECT", "REFLECTIONS"}))
    /\ simulator' = [AddSourceAndCommit(simulator, h) EXCEPT
                         !.scene = Len(scenes) + 1]
    /\ scenes' = Append(scenes, [simulator |-> simulator.id, calls |-> SceneCalls])
    /\ entities' = Append(entities,
                          [source |-> h, position |-> SpawnPose, has_nodes |-> has_nodes,
                           node |-> AmbisonicNodeNew,
                           decode_node |-> AmbisonicDecodeNodeNew])
    /\ ready' = FALSE
    /\ UNCHANGED << listener_source, camera, graph, order, ticks >>
    /\ UNCHANGED << audio_vars, wrapper_vars >>

\* update_camera: the camera takes the pose of the viewpoint (a move that no
\* later run of the driver sees is left out)
UpdateCamera(pose) ==
    /\ ticks < MaxTicks
    /\ pose # camera
    /\ camera' = pose
    /\ UNCHANGED << simulator, sources, listener_source, entities, graph, ready,
                    order, ticks, scenes >>
    /\ UNCHANGED << audio_vars, wrapper_vars >>

\* tick_orbit: an orbiting source moves
TickOrbit(e, pose) ==
    /\ ticks < MaxTicks
    /\ e \in DOMAIN entities
    /\ pose # entities[e].position
    /\ entities' = [entities EXCEPT ![e].position = pose]
    /\ UNCHANGED << simulator, sources, listener_source, camera, graph, ready,
                    order, ticks, scenes >>
    /\ UNCHANGED << audio_vars, wrapper_vars >>

\* the Camera3d entities: setup spawns one every time it runs, as it spawns
\* one entity with a source
Cameras == Len(entities)

\* a driver that runs whatever the number of cameras
AnyNumberOfCameras == TRUE

\* camera: Single<&GlobalTransform, With<Camera3d>>: the driver runs only
\* while exactly one Camera3d entity exists
SingleCamera == Cameras = 1

\* one call of the driver, as order records it
Call(name, h) == [call |-> name, source |-> h]

\* prepare_seedling_data, the loop over the query: for the entities from e on
RECURSIVE NodesLoop(_, _, _, _)
NodesLoop(st, e, listener_position, reverb) ==
    IF e > Len(st.entities) THEN st
    ELSE IF ~st.entities[e].has_nodes
    THEN NodesLoop(st, e + 1, listener_position, reverb)
    ELSE
      LET source == EntitySource(e)
          source_position == st.entities[e].position
          set == SetInputs(st.sources, source, source_position)
          outputs == GetOutputs(set, source)
      IN NodesLoop(
             [sources |-> set,
              entities |-> [st.entities EXCEPT
                  ![e].node =
                      [source_position |-> source_position,
                       listener_position |-> listener_position,
                       simulation_outputs |-> Some(SimulationOutputsFrom(outputs)),
                       reverb_effect_params |-> Some(reverb)],
                  ![e].decode_node = [listener_orientation |-> listener_position]],
              order |-> st.order \o << Call("set_inputs", source),
                                       Call("get_outputs", source),
                                       Call("publish", source) >>],
             e + 1, listener_position, reverb)

\* prepare_seedling_data, the simulation driver: one control tick
PrepareSeedlingData ==
    LET listener_position == camera
        listened == SetInputs(sources, listener_source, listener_position)
        shared == [simulator EXCEPT !.listener = camera,
                                    !.shared_inputs = Some(SharedInputs(camera))]
        run == simulator.passes + 1
        direct == RunDirect(shared, listened, run)
        reflected == RunReflections(shared, direct, run)
        reverb == GetOutputs(reflected, listener_source).reflections
        done == NodesLoop(
                    [sources |-> reflected, entities |-> entities,
                     order |-> << Call("set_inputs", listener_source),
                                  Call("set_shared_inputs", 0),
                                  Call("run_direct", 0),
                                  Call("run_reflections", 0),
                                  Call("get_outputs", listener_source) >>],
                    1, listener_position, reverb)
    IN
    /\ simulator.id # 0
    /\ ~ready
    /\ SingleCamera
    /\ ticks < MaxTicks
    /\ simulator' = [shared EXCEPT !.passes = run]
    /\ sources' = done.sources
    /\ entities' = done.entities
    /\ order' = done.order
    /\ ticks' = ticks + 1
    /\ UNCHANGED << listener_source, camera, graph, ready, scenes >>
    /\ UNCHANGED << audio_vars, wrapper_vars >>

InitDriver ==
    /\ Constructed("psn", AmbisonicNodeNew)
    /\ NoCallYet
    /\ s6 = S6Off
    /\ NoPatchesSent
    /\ simulator = NoSimulator
    /\ sources = << >>
    /\ listener_source = 0
    /\ entities = << >>
    /\ camera = SpawnPose
    /\ \E player_nodes \in BOOLEAN :
          graph = [NoGraph EXCEPT !.player_nodes = player_nodes]
    /\ ready = FALSE
    /\ order = << >>
    /\ ticks = 0
    /\ scenes = << >>
    /\ NoConversion

NextDriver ==
    \/ \E sample_rate \in SampleRates : LateInit(sample_rate)
    \/ Setup
    \/ \E pose \in Poses : UpdateCamera(pose)
    \/ \E e \in DOMAIN entities, pose \in Poses : TickOrbit(e, pose)
    \/ PrepareSeedlingData

SpecDriver == InitDriver /\ [][NextDriver]_vars

\* ------------------------------------------------------------------------
\* The snapshot conversions of src/src/wrappers.rs: the From impls between
\* the kernel's types (audionimbus::T) and the snapshot types the nodes carry
\* (AudionimbusT).  A value names its type in ty, so a snapshot is never the
\* kernel value it was made from; v0 is field 0 of a tuple struct.
\* ------------------------------------------------------------------------
\* the f32 values tried; a conversion copies an f32 bit for bit
Floats == 1 .. NumFloats
\* [f32; 3]
Triples == { << a, b, a >> : a \in Floats, b \in Floats }
\* raw handles of the kernel (IPLReflectionEffectIR, IPLTrueAudioNextDevice):
\* null and one object
Handles == {0, 1}
\* the moduli of u64 and of usize on a 32-bit and on a 64-bit target, with
\* every width halved so that the values are integers the checker holds
U64Modulus == 2 ^ 30
UsizeModuli == {2 ^ 15, 2 ^ 30}
\* value as u64, value as usize
AsU64(value) == value % U64Modulus
AsUsize(value, usize) == value % usize

\* the variants of both reflection-type enums
ReflectionEffectTypes == {"Convolution", "Parametric", "Hybrid", "TrueAudioNext"}

\* a mapping to the kernel's enum that takes Hybrid to Parametric
ReflectionEffectTypeFromLossy(value) ==
    [ty |-> "audionimbus::ReflectionEffectType",
     variant |-> CASE value.variant = "Convolution" -> "Convolution"
                   [] value.variant = "Parametric" -> "Parametric"
                   [] value.variant = "Hybrid" -> "Parametric"
                   [] value.variant = "TrueAudioNext" -> "TrueAudioNext"]

\* impl From<audionimbus::ReflectionEffectType> for AudionimbusReflectionEffectType
AudionimbusReflectionEffectTypeFrom(value) ==
    [ty |-> "AudionimbusReflectionEffectType",
     variant |-> CASE value.variant = "Convolution" -> "Convolution"
                   [] value.variant = "Parametric" -> "Parametric"
                   [] value.variant = "Hybrid" -> "Hybrid"
                   [] value.variant = "TrueAudioNext" -> "TrueAudioNext"]

\* impl From<AudionimbusReflectionEffectType> for audionimbus::ReflectionEffectType
ReflectionEffectTypeFrom(value) ==
    [ty |-> "audionimbus::ReflectionEffectType",
     variant |-> CASE value.variant = "Convolution" -> "Convolution"
                   [] value.variant = "Parametric" -> "Parametric"
                   [] value.variant = "Hybrid" -> "Hybrid"
                   [] value.variant = "TrueAudioNext" -> "TrueAudioNext"]

\* impl From<audionimbus::Equalizer<N>> for AudionimbusEqualizer<N>: Self(eq.0)
AudionimbusEqualizerFrom(eq) == [ty |-> "AudionimbusEqualizer", v0 |-> eq.v0]
\* impl From<AudionimbusEqualizer<N>> for audionimbus::Equalizer<N>: Self(eq.0)
EqualizerFrom(eq) == [ty |-> "audionimbus::Equalizer", v0 |-> eq.v0]

\* impl From<audionimbus::Transmission> for AudionimbusTransmission
AudionimbusTransmissionFrom(transmission) ==
    CASE transmission.variant = "FrequencyIndependent" ->
             [ty |-> "AudionimbusTransmission", variant |-> "FrequencyIndependent",
              v0 |-> AudionimbusEqualizerFrom(transmission.v0)]
      [] transmission.variant = "FrequencyDependent" ->
             [ty |-> "AudionimbusTransmission", variant |-> "FrequencyDependent",
              v0 |-> AudionimbusEqualizerFrom(transmission.v0)]

\* impl From<AudionimbusTransmission> for audionimbus::Transmission
TransmissionFrom(transmission) ==
    CASE transmission.variant = "FrequencyIndependent" ->
             [ty |-> "audionimbus::Transmission", variant |-> "FrequencyIndependent",
              v0 |-> EqualizerFrom(transmission.v0)]
      [] transmission.variant = "FrequencyDependent" ->
             [ty |-> "audionimbus::Transmission", variant |-> "FrequencyDependent",
              v0 |-> EqualizerFrom(transmission.v0)]

\* impl From<&audionimbus::DirectEffectParams> for AudionimbusDirectEffectParams;
\* Option::map of an Option o by f is { f(x) : x \in o }
AudionimbusDirectEffectParamsFrom(from) ==
    [ty |-> "AudionimbusDirectEffectParams",
     distance_attenuation |-> from.distance_attenuation,
     air_absorption |-> { AudionimbusEqualizerFrom(x) : x \in from.air_absorption },
     directivity |-> from.directivity,
     occlusion |-> from.occlusion,
     transmission |-> { AudionimbusTransmissionFrom(x) : x \in from.transmission }]

\* impl From<&AudionimbusDirectEffectParams> for audionimbus::DirectEffectParams
DirectEffectParamsFrom(from) ==
    [ty |-> "audionimbus::DirectEffectParams",
     distance_attenuation |-> from.distance_attenuation,
     air_absorption |-> { EqualizerFrom(x) : x \in from.air_absorption },
     directivity |-> from.directivity,
     occlusion |-> from.occlusion,
     transmission |-> { TransmissionFrom(x) : x \in from.transmission }]

\* impl From<&audionimbus::ReflectionEffectParams> for
\* AudionimbusReflectionEffectParams: the usize fields are cast as u64, the IR
\* handle is wrapped in ReflectionEffectIR, the device is cloned
AudionimbusReflectionEffectParamsFrom(value) ==
    [ty |-> "AudionimbusReflectionEffectParams",
     num_channels |-> AsU64(value.num_channels),
     impulse_response_size |-> AsU64(value.impulse_response_size),
     true_audio_next_device |-> value.true_audio_next_device,
     true_audio_next_slot |-> AsU64(value.true_audio_next_slot),
     reflection_effect_type |->
         AudionimbusReflectionEffectTypeFrom(value.reflection_effect_type),
     impulse_response |-> [ty |-> "ReflectionEffectIR", v0 |-> value.impulse_response],
     reverb_times |-> value.reverb_times,
     equalizer |-> AudionimbusEqualizerFrom(value.equalizer),
     delay |-> AsU64(value.delay)]

\* impl From<&AudionimbusReflectionEffectParams> for
\* audionimbus::ReflectionEffectParams: the u64 fields are cast as usize of
\* the target, the IR handle is unwrapped (params.impulse_response.0)
ReflectionEffectParamsFrom(from, usize) ==
    [ty |-> "audionimbus::ReflectionEffectParams",
     num_channels |-> AsUsize(from.num_channels, usize),
     impulse_response_size |-> AsUsize(from.impulse_response_size, usize),
     true_audio_next_device |-> from.true_audio_next_device,
     true_audio_next_slot |-> AsUsize(from.true_audio_next_slot, usize),
     reflection_effect_type |-> ReflectionEffectTypeFrom(from.reflection_effect_type),
     impulse_response |-> from.impulse_response.v0,
     reverb_times |-> from.reverb_times,
     equalizer |-> EqualizerFrom(from.equalizer),
     delay |-> AsUsize(from.delay, usize)]

\* Vec3::new(v.x, v.y, v.z) of an audionimbus::Vector3 or audionimbus::Point
Vec3New(v) == [ty |-> "Vec3", x |-> v.x, y |-> v.y, z |-> v.z]
\* audionimbus::Vector3 { x: v.x, y: v.y, z: v.z }
Vector3Of(v) == [ty |-> "audionimbus::Vector3", x |-> v.x, y |-> v.y, z |-> v.z]
\* audionimbus::Point { x: v.x, y: v.y, z: v.z }
PointOf(v) == [ty |-> "audionimbus::Point", x |-> v.x, y |-> v.y, z |-> v.z]

\* impl From<audionimbus::CoordinateSystem> for AudionimbusCoordinateSystem
AudionimbusCoordinateSystemFrom(system) ==
    [ty |-> "AudionimbusCoordinateSystem",
     right |-> Vec3New(system.right), up |-> Vec3New(system.up),
     ahead |-> Vec3New(system.ahead), origin |-> Vec3New(system.origin)]

\* impl From<AudionimbusCoordinateSystem> for audionimbus::CoordinateSystem
CoordinateSystemFrom(system) ==
    [ty |-> "audionimbus::CoordinateSystem",
     right |-> Vector3Of(system.right), up |-> Vector3Of(system.up),
     ahead |-> Vector3Of(system.ahead), origin |-> PointOf(system.origin)]

\* the kernel values handed to the conversions
KernelEqualizers == { [ty |-> "audionimbus::Equalizer", v0 |-> t] : t \in Triples }
KernelTransmissions ==
    { [ty |-> "audionimbus::Transmission", variant |-> v, v0 |-> eq] :
        v \in {"FrequencyIndependent", "FrequencyDependent"}, eq \in KernelEqualizers }
OptionOf(S) == {None} \cup { Some(x) : x \in S }
KernelDirectEffectParams ==
    [ty : {"audionimbus::DirectEffectParams"},
     distance_attenuation : OptionOf(Floats),
     air_absorption : OptionOf(KernelEqualizers),
     directivity : OptionOf(Floats),
     occlusion : OptionOf(Floats),
     transmission : OptionOf(KernelTransmissions)]
KernelReflectionEffectTypes ==
    { [ty |-> "audionimbus::ReflectionEffectType", variant |-> v] :
        v \in ReflectionEffectTypes }
SnapshotReflectionEffectTypes ==
    { [ty |-> "AudionimbusReflectionEffectType", variant |-> v] :
        v \in ReflectionEffectTypes }
\* usize values of a target: zero and usize::MAX
Usizes(usize) == {0, usize - 1}
KernelReflectionEffectParams(usize) ==
    [ty : {"audionimbus::ReflectionEffectParams"},
     num_channels : Usizes(usize),
     impulse_response_size : Usizes(usize),
     true_audio_next_device : Handles,
     true_audio_next_slot : Usizes(usize),
     reflection_effect_type : KernelReflectionEffectTypes,
     impulse_response : Handles,
     reverb_times : Triples,
     equalizer : KernelEqualizers,
     delay : Usizes(usize)]
KernelVectors ==
    { [ty |-> "audionimbus::Vector3", x |-> a, y |-> b, z |-> a] :
        a \in Floats, b \in Floats }
KernelPoints ==
    { [ty |-> "audionimbus::Point", x |-> a, y |-> b, z |-> a] :
        a \in Floats, b \in Floats }
KernelCoordinateSystems ==
    [ty : {"audionimbus::CoordinateSystem"},
     right : KernelVectors, up : KernelVectors, ahead : KernelVectors,
     origin : KernelPoints]

\* a value is handed to a conversion
Handed(of, usize, value) ==
    conversion = [of |-> of, usize |-> usize, original |-> Some(value),
                  converted |-> None, restored |-> None]

\* the value handed over was not converted yet
CanConvert(of) == conversion.of = of /\ conversion.converted = None
\* the converted value was not converted back yet
CanConvertBack(of) ==
    /\ conversion.of = of
    /\ IsSome(conversion.converted)
    /\ conversion.restored = None

\* (&direct_params).into(): kernel to snapshot
DirectToSnapshot ==
    /\ CanConvert("direct")
    /\ conversion' = [conversion EXCEPT
           !.converted = { AudionimbusDirectEffectParamsFrom(x) : x \in conversion.original }]
    /\ UNCHANGED << audio_vars, driver_vars >>

\* (&snapshot).into(): snapshot to kernel
DirectToKernel ==
    /\ CanConvertBack("direct")
    /\ conversion' = [conversion EXCEPT
           !.restored = { DirectEffectParamsFrom(x) : x \in conversion.converted }]
    /\ UNCHANGED << audio_vars, driver_vars >>

\* (&reflection_params).into(): kernel to snapshot
ReflectionToSnapshot ==
    /\ CanConvert("reflection")
    /\ conversion' = [conversion EXCEPT
           !.converted = { AudionimbusReflectionEffectParamsFrom(x) : x \in conversion.original }]
    /\ UNCHANGED << audio_vars, driver_vars >>

\* the conversion to the kernel's parameters on the target of the build
ReflectionEffectParamsFromOnTarget(from) ==
    ReflectionEffectParamsFrom(from, conversion.usize)

\* (&snapshot).into(): snapshot to kernel
ReflectionToKernel ==
    /\ CanConvertBack("reflection")
    /\ conversion' = [conversion EXCEPT
           !.restored = { ReflectionEffectParamsFromOnTarget(x) : x \in conversion.converted }]
    /\ UNCHANGED << audio_vars, driver_vars >>

\* coordinate_system.into(): kernel to snapshot
CoordinatesToSnapshot ==
    /\ CanConvert("coordinates")
    /\ conversion' = [conversion EXCEPT
           !.converted = { AudionimbusCoordinateSystemFrom(x) : x \in conversion.original }]
    /\ UNCHANGED << audio_vars, driver_vars >>

\* snapshot.into(): snapshot to kernel
CoordinatesToKernel ==
    /\ CanConvertBack("coordinates")
    /\ conversion' = [conversion EXCEPT
           !.restored = { CoordinateSystemFrom(x) : x \in conversion.converted }]
    /\ UNCHANGED << audio_vars, driver_vars >>

\* a kernel reflection type to the snapshot's
TypeToSnapshot ==
    /\ CanConvert("kernel type")
    /\ conversion' = [conversion EXCEPT
           !.converted = { AudionimbusReflectionEffectTypeFrom(x) : x \in conversion.original }]
    /\ UNCHANGED << audio_vars, driver_vars >>

\* and back to the kernel's
TypeToKernel ==
    /\ CanConvertBack("kernel type")
    /\ conversion' = [conversion EXCEPT
           !.restored = { ReflectionEffectTypeFrom(x) : x \in conversion.converted }]
    /\ UNCHANGED << audio_vars, driver_vars >>

\* a snapshot reflection type to the kernel's
SnapshotTypeToKernel ==
    /\ CanConvert("snapshot type")
    /\ conversion' = [conversion EXCEPT
           !.converted = { ReflectionEffectTypeFrom(x) : x \in conversion.original }]
    /\ UNCHANGED << audio_vars, driver_vars >>

\* and back to the snapshot's
SnapshotTypeToSnapshot ==
    /\ CanConvertBack("snapshot type")
    /\ conversion' = [conversion EXCEPT
           !.restored = { AudionimbusReflectionEffectTypeFrom(x) : x \in conversion.converted }]
    /\ UNCHANGED << audio_vars, driver_vars >>

InitWrappers ==
    /\ Constructed("psn", AmbisonicNodeNew)
    /\ NoCallYet
    /\ s6 = S6Off
    /\ NoPatchesSent
    /\ NoDriver
    /\ \/ \E value \in KernelDirectEffectParams : Handed("direct", 0, value)
       \/ \E usize \in UsizeModuli :
             \E value \in KernelReflectionEffectParams(usize) :
                 Handed("reflection", usize, value)
       \/ \E value \in KernelCoordinateSystems : Handed("coordinates", 0, value)
       \/ \E value \in KernelReflectionEffectTypes : Handed("kernel type", 0, value)
       \/ \E value \in SnapshotReflectionEffectTypes : Handed("snapshot type", 0, value)

NextWrappers ==
    \/ DirectToSnapshot
    \/ DirectToKernel
    \/ ReflectionToSnapshot
    \/ ReflectionToKernel
    \/ CoordinatesToSnapshot
    \/ CoordinatesToKernel
    \/ TypeToSnapshot
    \/ TypeToKernel
    \/ SnapshotTypeToKernel
    \/ SnapshotTypeToSnapshot

SpecWrappers == InitWrappers /\ [][NextWrappers]_vars

\* ------------------------------------------------------------------------
\* What the last callback did
\* ------------------------------------------------------------------------
\* times the last callback found the accumulators full
LastCycles == cycles - before.cycles
\* times the last callback applied the effects
LastApplied == applied - before.applied
\* samples the last callback pushed onto accumulator 0
LastPushed == pushed - before.pushed
\* frames the last callback appended to output_buffer
LastAppended == appended - before.appended
\* some callback before the last one drained a frame to the host
StartedBefore == before.drained > 0
\* the per-source processor holds both snapshots its cycle asks for
HasSnapshots == IsSome(simulation_outputs) /\ IsSome(reverb_effect_params)
\* vec![0.0; FRAME_SIZE * N]: the temporary buffers a cycle allocates on the
\* heap: reflection_container and reverb_container, or staging_container
TemporaryVecs(k) == IF k = "psn" THEN 2 ELSE 1
\* heap allocations the cycles so far made for their temporary buffers
HeapAllocations == applied * TemporaryVecs(kind)
\* Vec::with_capacity(buffer_size.max(FRAME_SIZE)) of output_buffer
OutputCapacity == Max(MaxBlockFrames, FRAME_SIZE)
\* the pre-roll of the block adapter: 1.5 * N_max frames, doubled
PreRoll2 == 3 * MaxBlockFrames
\* the host position (from 0) of frame i (from 1) of the last block
Position(i) == clock - frames + i - 1

\* ------------------------------------------------------------------------
\* C1..C10
\* ------------------------------------------------------------------------

\* C1: every processing cycle of either processor consumes exactly
\* FRAME_SIZE accumulated samples per input channel and appends exactly
\* FRAME_SIZE frames to the output queue, and leaves every accumulator
\* empty.  Stated over the cycles that applied the effects.
C1_CycleTakesAndGivesF ==
    /\ consumed = FRAME_SIZE * applied
    /\ (kind = "adn" \/ HasSnapshots) => appended = FRAME_SIZE * applied
    /\ (kind = "adn" \/ HasSnapshots) =>
          \A c \in DOMAIN input_buffer :
              Len(input_buffer[c]) = pushed - FRAME_SIZE * applied

\* C2: when the host blocks delivered to a node sum to k * FRAME_SIZE frames,
\* the node has run exactly k processing cycles, however the frames were
\* split into blocks.  Stated over the blocks not flagged silent.
C2_CyclesEqualBlocksOverF ==
    fed % FRAME_SIZE = 0 => cycles = fed \div FRAME_SIZE

\* C3: once a node has started draining, every callback of n frames removes
\* exactly n frames from the output queue and writes all n frames of the
\* host output; the queue never holds fewer than n frames at drain time.
\* Stated over the callbacks that reach the drain.
C3_NoUnderrunOnceDraining ==
    (StartedBefore /\ status = "outputs_not_silent") =>
        /\ queued >= frames
        /\ Len(written) = frames
        /\ drained - before.drained = frames

\* C4: until the output queue has reached the pre-roll of 1.5 * N_max frames
\* a callback emits silence and removes nothing from the queue; draining
\* starts only when the queue has reached the pre-roll.
C4_PreRollBeforeDraining ==
    (calls > 0 /\ ~StartedBefore /\ 2 * (before.queue + LastAppended) < PreRoll2) =>
        /\ drained = before.drained
        /\ \A i \in 1 .. frames : Delivered(i) = ZeroFrame

\* C6: the output derived from input sample t reaches the host at position
\* t + FRAME_SIZE + pre-roll when every host block has FRAME_SIZE frames, and
\* no later than that for any other block sizes.
C6_LatencyIsFPlusPreRoll ==
    \A i \in 1 .. Len(written) :
        written[i].kind \in {"mix", "decode"} =>
            /\ 2 * Position(i) <= 2 * (written[i].t + FRAME_SIZE) + PreRoll2
            /\ uniform =>
                  2 * Position(i) = 2 * (written[i].t + FRAME_SIZE) + PreRoll2

\* C7: while the per-source processor lacks SimulationOutputs or
\* ReverbParams, every frame the host takes from a callback is exactly zero
\* on all channels, whatever the output buffers held before the callback.
C7_SilenceWithoutSnapshots ==
    (kind = "psn" /\ ~HasSnapshots /\ calls > 0) =>
        \A i \in 1 .. frames : Delivered(i) = ZeroFrame

\* C8: a per-source node constructed without snapshots writes exact zeros
\* until a patch carrying SimulationOutputs and ReverbParams is applied, and
\* every cycle completed from that patch on applies the effects with the
\* patched snapshots.
C8_CycleAfterPatchApplies ==
    kind = "psn" =>
        /\ ~(IsSome(params.simulation_outputs) /\ IsSome(params.reverb_effect_params))
              => \A i \in 1 .. Len(written) : written[i] = ZeroFrame
        /\ (IsSome(params.simulation_outputs) /\ IsSome(params.reverb_effect_params)
            /\ LastCycles > 0)
              => /\ LastApplied = LastCycles
                 /\ \A i \in 1 .. Len(written) :
                        written[i].kind = "mix" =>
                            /\ written[i].direct = params.simulation_outputs
                            /\ written[i].reverb = params.reverb_effect_params

\* C9: the per-source node does not return early on input silence: in a
\* callback flagged silent with reverb parameters present it still pushes
\* the frames of the block onto its accumulators and runs a cycle whenever
\* they reach FRAME_SIZE.
C9_NoEarlyReturnOnSilence ==
    (kind = "psn" /\ silent /\ IsSome(reverb_effect_params)) =>
        /\ LastPushed = frames
        /\ before.len + frames >= FRAME_SIZE => LastCycles > 0

\* C10: in the decode node a block whose input channels are all flagged
\* silent returns ClearAllOutputs without running a decode cycle.
C10_DecodeClearsOnSilence ==
    (kind = "adn" /\ silent) =>
        /\ status = "ClearAllOutputs"
        /\ LastCycles = 0
        /\ LastApplied = 0
        /\ LastPushed = 0

\* C10: a silent block that would have filled the accumulators of the decode
\* node, had it been accumulated
C10_Witness ==
    /\ kind = "adn"
    /\ silent
    /\ status = "ClearAllOutputs"
    /\ before.len > 0
    /\ before.len + frames >= FRAME_SIZE

\* C5: scenario S6.  The frames of (b) reach the host as those of (a) do,
\* later by one fixed delay of at most FRAME_SIZE + pre-roll frames.
C5_BlockSizeResilience ==
    /\ Cardinality(s6.delays) <= 1
    /\ \A d \in s6.delays :
          d >= 0 /\ 2 * d <= 2 * FRAME_SIZE + 3 * S6MaxBlockFrames


\* ------------------------------------------------------------------------
\* C11..C20
\* ------------------------------------------------------------------------

\* C11: in every process callback all patches waiting for the node are applied
\* to its parameters in publication (FIFO) order before any input frame of
\* the block is accumulated or processed: after the callback nothing waits,
\* the parameters equal the node as the control thread last published it,
\* and every frame a cycle of that callback computed used those parameters.
C11_PatchesDrainedInOrder ==
    calls > 0 =>
        /\ (events = << >> => params = published)
        /\ (events = << >> /\ kind = "psn") =>
              \A i \in 1 .. Len(written) :
                  written[i].kind = "mix" =>
                      /\ written[i].source_position = published.source_position
                      /\ written[i].listener_position = published.listener_position

\* C11: a callback has drained a queue in which a field was patched twice,
\* to different values, and run a cycle
C11_Witness ==
    /\ calls > 0
    /\ events = << >>
    /\ before.patched >= 2 * Len(NodeFields(kind))
    /\ LastCycles > 0


\* the entities whose node the driver has written
Published == {e \in DOMAIN entities : IsSome(entities[e].node.simulation_outputs)}

\* C12: for every snapshot published for a source, its DirectParams and
\* ReflectionParams were computed by one simulator pass whose inputs were the
\* listener pose and the source position published alongside them.
C12_SnapshotFromOnePass ==
    \A e \in Published :
        \A o \in entities[e].node.simulation_outputs :
            /\ o.direct.run > 0
            /\ o.direct.run = o.reflections.run
            /\ o.direct.origin = entities[e].node.source_position
            /\ o.reflections.origin = entities[e].node.source_position
            /\ o.direct.listener = entities[e].node.listener_position
            /\ o.reflections.listener = entities[e].node.listener_position

\* C13: in every control tick the listener source's inputs and the shared
\* inputs are set, then every sounding source's inputs, then the direct pass
\* runs, then the reflections pass, and only then are outputs read and
\* published.
C13_InputsThenRunsThenOutputs ==
    \A i, j \in DOMAIN order :
        /\ (order[i].call \in {"set_inputs", "set_shared_inputs"}
            /\ order[j].call = "run_direct") => i < j
        /\ (order[i].call = "run_direct" /\ order[j].call = "run_reflections") => i < j
        /\ (order[i].call = "run_reflections"
            /\ order[j].call \in {"get_outputs", "publish"}) => i < j

C15_ChannelCounts ==
    graph.built =>
        /\ AMBISONICS_NUM_CHANNELS = 9
        /\ graph.nodes.psn.num_outputs = AMBISONICS_NUM_CHANNELS
        /\ graph.nodes.adn.num_inputs = AMBISONICS_NUM_CHANNELS
        /\ graph.nodes.adn.num_outputs = 2
        /\ graph.connections = {<<i, i>> : i \in 0 .. AMBISONICS_NUM_CHANNELS - 1}

\* C15: late_init has built the graph
C15_Witness ==
    /\ graph.built
    /\ Cardinality(graph.connections) = AMBISONICS_NUM_CHANNELS
    /\ ~ready


C16_MixOfEverySample ==
    (kind = "psn" /\ HasSnapshots) =>
        /\ LastAppended = FRAME_SIZE * LastApplied
        /\ \A i \in 1 .. Len(written) :
              written[i].kind = "mix" =>
                  \A w \in written[i].mix :
                      /\ << w.direct, w.reflections, w.reverb >> = << 10, 3, 1 >>
                      /\ w.direct + w.reflections + w.reverb = w.divisor

\* C17: no process callback allocates or grows heap memory: no temporary
\* buffer is heap-allocated inside process, no accumulator grows, and the
\* output queue never exceeds the capacity max(max_block_frames, FRAME_SIZE)
\* reserved at construction.
C17_NoHeapInProcess ==
    /\ HeapAllocations = 0
    /\ \A c \in DOMAIN capacity : capacity[c] = FRAME_SIZE
    /\ Len(output_buffer) <= OutputCapacity
    /\ queued <= OutputCapacity

C19_SilencePassthrough ==
    (calls > 0 /\ fed = clock /\ (kind = "adn" \/ HasSnapshots)) =>
        \A i \in 1 .. frames : Delivered(i).kind \in {"zero", "mix", "decode"}


\* ------------------------------------------------------------------------
\* C21..C30
\* ------------------------------------------------------------------------

\* the node component a frame of the per-source cycle was computed from, if
\* its effect parameters and its positions come from one value of the node
FrameNode(f) ==
    [source_position |-> f.source_position,
     listener_position |-> f.listener_position,
     simulation_outputs |-> f.direct,
     reverb_effect_params |-> f.reverb]

\* C21: in every processing cycle of the per-source node the DirectParams,
\* ReflectionParams and ReverbParams handed to the effects are those of the
\* parameters after the most recently applied patch, and they come from the
\* same published snapshot as the source and listener positions the encode
\* direction is computed from.
C21_ParamsOfLatestPatch ==
    (kind = "psn" /\ calls > 0 /\ LastApplied > 0
     /\ IsSome(params.simulation_outputs) /\ IsSome(params.reverb_effect_params)) =>
        \A i \in 1 .. Len(written) :
            written[i].kind = "mix" =>
                /\ written[i].direct = params.simulation_outputs
                /\ written[i].reflections = params.simulation_outputs
                /\ written[i].reverb = params.reverb_effect_params
                /\ FrameNode(written[i]) = params


\* C22: in every decode cycle the orientation handed to the ambisonic decode
\* effect is the listener coordinate frame of the most recently applied
\* AmbisonicDecodeNode patch, the orientation the driver last published.
C22_OrientationOfLatestPatch ==
    (kind = "adn" /\ calls > 0 /\ LastApplied > 0) =>
        \A i \in 1 .. Len(written) :
            written[i].kind = "decode" =>
                written[i].orientation = params.listener_orientation


\* a buffer of that many channels of FRAME_SIZE samples each
HasChannels(buffer, channels) ==
    /\ buffer.data = channels * FRAME_SIZE
    /\ buffer.channel_ptrs = channels
    /\ buffer.num_channels \subseteq {channels}

\* C24: every effect apply call on the audio thread receives input and output
\* buffers whose channel counts are those the effect was constructed for and
\* that hold FRAME_SIZE samples per channel: direct 1 in and 1 out, encode 1
\* in and C out, reflection effect C out, decode C in and 2 out.
C24_BuffersAsConstructed ==
    \A i \in DOMAIN applies :
        LET a == applies[i]
            c == ConstructedFor(a.stage)
        IN /\ c.inputs # 0 => HasChannels(a.input, c.inputs)
           /\ HasChannels(a.output, c.outputs)

\* C25: every call of the ambisonic decode effect is made with order
\* AMBISONICS_ORDER, the processor's HRTF and binaural = true.
C25_DecodeIsBinaural ==
    \A i \in DOMAIN applies :
        applies[i].stage = "decode" =>
            /\ applies[i].params.order = AMBISONICS_ORDER
            /\ applies[i].params.hrtf = "self.hrtf"
            /\ applies[i].params.binaural

\* C26: in each cycle of the per-source node the effects are applied in the
\* order direct, ambisonic encode, reflections, reverb; the encode effect's
\* input is the direct effect's output, and both the reflections and the
\* reverb application take the raw accumulated input, not the direct output.
C26_EffectsInOrder ==
    kind = "psn" =>
        /\ Len(applies) = 4 * LastApplied
        /\ \A c \in 0 .. LastApplied - 1 :
              LET direct == applies[4 * c + 1]
                  encode == applies[4 * c + 2]
                  reflections == applies[4 * c + 3]
                  reverb == applies[4 * c + 4]
              IN /\ << direct.stage, encode.stage, reflections.stage, reverb.stage >>
                      = << "direct", "encode", "reflections", "reverb" >>
                 /\ encode.input = direct.output
                 /\ direct.input = InputBuffer
                 /\ reflections.input = InputBuffer
                 /\ reverb.input = InputBuffer
                 /\ InputBuffer # direct.output

\* C26: one callback has run two cycles of the per-source node
C26_Witness ==
    /\ kind = "psn"
    /\ LastApplied = 2
    /\ Len(applies) = 8


\* C30: a process callback in which the host flags all input channels silent
\* changes nothing but the node's patched parameters: the accumulators keep
\* their partially filled contents, the output queue keeps its length and
\* contents, and no queued frame is delivered during that block.
C30_SilentBlockKeepsState ==
    [][(calls' = calls + 1 /\ silent') =>
          /\ input_buffer' = input_buffer
          /\ capacity' = capacity
          /\ output_buffer' = output_buffer
          /\ simulation_outputs' = simulation_outputs
          /\ reverb_effect_params' = reverb_effect_params
          /\ listener_orientation' = listener_orientation
          /\ drained' = drained
          /\ written' = << >>
          /\ applies' = << >>
          /\ status' = "ClearAllOutputs"]_vars

\* C30: a block flagged silent has found the accumulators partly filled and
\* frames waiting in the output queue, and has left both as they were
C30_Witness ==
    /\ calls > 0
    /\ silent
    /\ before.len > 0
    /\ Len(input_buffer[1]) = before.len
    /\ before.queue > 0
    /\ Len(output_buffer) = before.queue


\* C23: in every control tick the reverb parameters published to every node
\* are the reflection outputs read from the listener-anchored source after
\* that tick's reflections pass, computed with that source's origin set to
\* the current listener position before the pass; the listener-anchored
\* source is created and driven with the Reflections flag only, and no
\* direct outputs are computed for it or read from it.
C23_ReverbFromListenerSource ==
    /\ listener_source # 0 =>
          /\ sources[listener_source].flags = {"REFLECTIONS"}
          /\ sources[listener_source].direct = NoOutput(listener_source)
    /\ simulator.passes > 0 =>
          \A e \in Published :
              \A r \in entities[e].node.reverb_effect_params :
                  /\ r = sources[listener_source].reflections
                  /\ r.of = listener_source
                  /\ r.run = simulator.passes
                  /\ r.origin = entities[e].node.listener_position

\* C23: the second tick has published reverb parameters computed after the
\* listener moved
C23_Witness ==
    /\ simulator.passes = 2
    /\ \E e \in Published :
          /\ entities[e].node.listener_position # SpawnPose
          /\ \A r \in entities[e].node.reverb_effect_params :
                 r.origin # SpawnPose /\ r.run = 2

SceneCommits ==
    Cardinality({si \in (DOMAIN scenes) \X (1 .. Len(SceneCalls)) :
                    scenes[si[1]].calls[si[2]] = "scene.commit"})

\* C28: the acoustic scene is committed exactly once per session, for any
\* number of stream-start events: all static meshes are added before that
\* commit and none after it, the scene is attached to the simulator only
\* after the scene's commit, and the simulator is committed after the
\* attachment and before the next simulation pass.
C28_SceneCommittedOnce ==
    /\ SceneCommits <= 1
    /\ \A s \in DOMAIN scenes :
          \A i, j \in DOMAIN scenes[s].calls :
              LET c == scenes[s].calls IN
              /\ (c[i] = "add_static_mesh" /\ c[j] = "scene.commit") => i < j
              /\ (c[i] = "scene.commit" /\ c[j] = "set_scene") => i < j
              /\ (c[i] = "set_scene" /\ c[j] = "simulator.commit") => i < j
    /\ simulator.passes > 0 => simulator.scene # 0

\* the sources the last run of the driver set inputs on, read outputs from
\* or published a snapshot for
Driven ==
    {order[i].source : i \in {j \in DOMAIN order :
        order[j].call \in {"set_inputs", "get_outputs", "publish"}}}

C31_AccumulatorsInStep ==
    /\ \A c \in DOMAIN input_buffer :
          /\ Len(input_buffer[c]) = Len(input_buffer[1])
          /\ input_buffer[c] = input_buffer[1]
          /\ capacity[c] = capacity[1]
    /\ status # "panic"
    /\ consumed = FRAME_SIZE * applied

\* C31: the last callback ran a cycle that copied the accumulators, and has
\* pushed further samples onto every one of them since
C31_Witness ==
    /\ LastApplied > 0
    /\ \A c \in DOMAIN input_buffer : Len(input_buffer[c]) > 0


\* C32: after every process callback, also one in which the per-source
\* node's snapshots are missing, each input accumulator holds fewer than
\* FRAME_SIZE samples.
C32_AccumulatorsBelowF ==
    calls > 0 =>
        \A c \in DOMAIN input_buffer : Len(input_buffer[c]) < FRAME_SIZE

\* C33: every input frame of a host block not flagged silent is appended to
\* the accumulators exactly once and in arrival order, whether or not the
\* snapshots are there: the callback pushed as many samples as the block has
\* frames, and what an accumulator holds is in the order of the host frames.
C33_EveryFrameAppendedOnce ==
    (calls > 0 /\ ~silent /\ status # "panic") =>
        /\ LastPushed = frames
        /\ \A c \in DOMAIN input_buffer :
              \A i \in 1 .. Len(input_buffer[c]) - 1 :
                  input_buffer[c][i] < input_buffer[c][i + 1]


\* C34: the output queue of each node is FIFO and lossless.  Every callback
\* leaves the frames that were waiting at the front and in their order, ahead
\* of the frames its cycles appended, and hands the host a prefix of that
\* queue; every frame appended is either still queued or was drained to the
\* host once; and while non-silent callbacks continue a queue that holds
\* frames is eventually emptied into the host's blocks.
C34_QueueIsFifoAndLossless ==
    /\ [][calls' = calls + 1 =>
            LET all == written' \o output_buffer' IN
            /\ Len(all) = Len(output_buffer) + (appended' - appended)
            /\ SubSeq(all, 1, Len(output_buffer)) = output_buffer
            /\ drained' - drained = Len(written')
            /\ \A i \in 1 .. Len(written') :
                  status' = "outputs_not_silent" /\ Delivered(i)' = all[i]]_vars
    /\ [](drained + Len(output_buffer) = appended)
    /\ (output_buffer # << >>) ~> (output_buffer = << >>)

\* C34: frames that waited in the queue over a callback boundary were handed
\* to the host ahead of the frames of the cycle the last callback ran
C34_Witness ==
    /\ before.queue > 0
    /\ LastApplied > 0
    /\ status = "outputs_not_silent"
    /\ Len(written) = before.queue + LastAppended
    /\ written[Len(written)].kind \in {"mix", "decode"}
    /\ output_buffer = << >>


\* C36: in every control tick the shared simulation inputs stay within the
\* limits the simulator was built with (num_rays <= max_num_rays, duration <=
\* max_duration, order <= max_order), and the impulse response of the
\* reflection effect, 2 * sample rate samples, is as long as the simulated
\* reverb duration at that sample rate.
C36_SharedInputsWithinLimits ==
    /\ IsSome(simulator.shared_inputs) => IsSome(simulator.settings)
    /\ \A inputs \in simulator.shared_inputs : \A settings \in simulator.settings :
          /\ inputs.num_rays <= settings.max_num_rays
          /\ inputs.duration <= settings.max_duration
          /\ inputs.order <= settings.max_order
          /\ ReflectionEffectSettings(simulator.sampling_rate).impulse_response_size
                >= inputs.duration * simulator.sampling_rate

\* C36: a control tick has set the shared inputs of a simulator built for a
\* stream of 48 kHz and has run its passes
C36_Witness ==
    /\ ticks > 0
    /\ simulator.passes > 0
    /\ simulator.sampling_rate = 48000
    /\ IsSome(simulator.shared_inputs)
    /\ \E i \in DOMAIN order : order[i].call = "set_shared_inputs"


\* C35: the snapshot conversions are lossless round trips.  A kernel
\* DirectEffectParams, ReflectionEffectParams (with its reflection-type tag,
\* IR handle and device handle) or CoordinateSystem converted to its
\* snapshot type and back equals the original, and the two reflection-type
\* mappings are inverse to each other on all four variants, in both orders.
C35_SnapshotRoundTrip ==
    /\ \A restored \in conversion.restored :
          \A original \in conversion.original : restored = original
    /\ \A converted \in conversion.converted :
          \A original \in conversion.original : converted.ty # original.ty
    /\ \A value \in KernelReflectionEffectTypes :
          ReflectionEffectTypeFrom(AudionimbusReflectionEffectTypeFrom(value)) = value
    /\ \A value \in SnapshotReflectionEffectTypes :
          AudionimbusReflectionEffectTypeFrom(ReflectionEffectTypeFrom(value)) = value

\* C35: hybrid reflection parameters with an IR handle, a device handle and
\* sizes of usize::MAX on a 32-bit target went to the snapshot type and back
C35_Witness ==
    /\ conversion.of = "reflection"
    /\ conversion.usize < U64Modulus
    /\ IsSome(conversion.restored)
    /\ \A original \in conversion.original :
          /\ original.reflection_effect_type.variant = "Hybrid"
          /\ original.impulse_response # 0
          /\ original.true_audio_next_device # 0
          /\ original.impulse_response_size = conversion.usize - 1

=============================================================================
